---- MODULE Spec2Model ----
(***************************************************************************)
(* A model of the sized_number crate: a cursor over an immutable byte      *)
(* buffer (std::io::Cursor<&Vec<u8>> in lib.rs, the Context wrapper in     *)
(* context.rs), the SizedDefinition shapes that read a fixed-width value   *)
(* at the cursor, and the display functions that render the value.         *)
(*                                                                         *)
(* Representation.  A byte is an integer in 0..255.  An N-bit machine      *)
(* integer (u8..u128, i8..i128, and the bit pattern of f32/f64) is the     *)
(* sequence of its N/8 bytes, most significant byte first: 64- and 128-bit *)
(* values do not fit the integers of the model checker, so arithmetic on   *)
(* them (zero/sign extension, base conversion) is done on the bytes.       *)
(* A text is a sequence of one-character strings.                          *)
(***************************************************************************)
EXTENDS Integers, Sequences, FiniteSets

VARIABLES
    buf,      \* the borrowed Vec<u8>; never written
    pos,      \* the position field of the caller's cursor
    pos0,     \* the position asked of the cursor's constructor (history)
    left,     \* calls this behaviour may still make on the cursor
    last,     \* the latest call made on the cursor and what it returned
    peers     \* the other cursors over the same buffer, in order of creation

vars == <<buf, pos, pos0, left, last, peers>>

(***************************************************************************)
(* Bounds of the exploration.                                              *)
(***************************************************************************)
MaxLen == 17      \* longest buffer: one byte more than the widest read
MaxPos == 19      \* largest cursor position: beyond the end of any buffer
MaxCalls == 2     \* calls made in a row on the cursors of SeqCursors
MaxRead == 5      \* largest count passed to Context::read_bytes
MaxPeers == 2     \* most cursors created beside the caller's
MaxShared == 4    \* calls made in a row where several cursors share a buffer

(***************************************************************************)
(* Sequences of bytes and texts.                                           *)
(***************************************************************************)
Reverse(s) == [i \in 1..Len(s) |-> s[Len(s) + 1 - i]]

Repeat(x, n) == [i \in 1..n |-> x]

\* s without its leading x's, but never shorter than one element
StripLeading(s, x) ==
    LET keep == {i \in 1..Len(s) : s[i] # x}
        first == IF keep = {} THEN Len(s)
                 ELSE CHOOSE i \in keep : \A j \in keep : i <= j
    IN  IF Len(s) <= 1 THEN s ELSE SubSeq(s, first, Len(s))

\* s without its trailing x's, but never shorter than one element
StripTrailing(s, x) == Reverse(StripLeading(Reverse(s), x))

(***************************************************************************)
(* Endian and SizedDefinition (lib.rs).  U8 and I8 carry no endianness.    *)
(***************************************************************************)
Endian == {"Big", "Little"}

UnsignedTys == {"U8", "U16", "U32", "U64", "U128"}
SignedTys == {"I8", "I16", "I32", "I64", "I128"}
FloatTys == {"F32", "F64"}
IntegerTys == UnsignedTys \cup SignedTys

SizedDefinition ==
    {[ty |-> "U8", endian |-> "None"], [ty |-> "I8", endian |-> "None"]}
    \cup [ty : (IntegerTys \cup FloatTys) \ {"U8", "I8"}, endian : Endian]

\* faulty variant: the 128-bit shapes are given the width of the 64-bit ones
size_128_as_64(d) ==
    CASE d.ty \in {"U8", "I8"} -> 1
      [] d.ty \in {"U16", "I16"} -> 2
      [] d.ty \in {"U32", "I32", "F32"} -> 4
      [] d.ty \in {"U64", "I64", "F64", "U128", "I128"} -> 8

\* SizedDefinition::size
size(d) ==
    CASE d.ty = "U8" -> 1
      [] d.ty = "U16" -> 2
      [] d.ty = "U32" -> 4
      [] d.ty = "U64" -> 8
      [] d.ty = "U128" -> 16
      [] d.ty = "I8" -> 1
      [] d.ty = "I16" -> 2
      [] d.ty = "I32" -> 4
      [] d.ty = "I64" -> 8
      [] d.ty = "I128" -> 16
      [] d.ty = "F32" -> 4
      [] d.ty = "F64" -> 8

(***************************************************************************)
(* The cursor.  new_context(v, offset) is Cursor::new(v) followed by       *)
(* set_position(offset): it cannot fail and stores the offset as given.    *)
(***************************************************************************)
new_context(v, offset) == [v |-> v, position |-> offset]

(***************************************************************************)
(* Read::read_exact on a cursor, as every byteorder read_* reaches it: the *)
(* readable bytes are those from min(position, len) to the end; with fewer *)
(* than n of them the read fails (UnexpectedEof) and leaves the cursor it  *)
(* was called on at the end of the buffer, otherwise it yields the next n  *)
(* bytes and moves that cursor n forward.                                  *)
(***************************************************************************)
Min(a, b) == IF a <= b THEN a ELSE b

\* faulty variant: a window that ends exactly at the end of the buffer is
\* refused
read_exact_off_by_one(c, n) ==
    LET start == Min(c.position, Len(c.v))
    IN  IF Len(c.v) - start <= n
        THEN [ok |-> FALSE, bytes |-> <<>>, position |-> Len(c.v)]
        ELSE [ok |-> TRUE,
              bytes |-> SubSeq(c.v, start + 1, start + n),
              position |-> c.position + n]

\* faulty variant: a short read is filled up with zero bytes, not refused
read_exact_zero_fill(c, n) ==
    LET start == Min(c.position, Len(c.v))
        got == Min(n, Len(c.v) - start)
    IN  [ok |-> TRUE,
         bytes |-> SubSeq(c.v, start + 1, start + got) \o Repeat(0, n - got),
         position |-> c.position + n]

\* faulty variant: the bytes are taken from the start of the buffer,
\* wherever the cursor is
read_exact_from_start(c, n) ==
    LET start == Min(c.position, Len(c.v))
    IN  IF Len(c.v) - start < n
        THEN [ok |-> FALSE, bytes |-> <<>>, position |-> Len(c.v)]
        ELSE [ok |-> TRUE,
              bytes |-> SubSeq(c.v, 1, n),
              position |-> c.position + n]

read_exact(c, n) ==
    LET start == Min(c.position, Len(c.v))
    IN  IF Len(c.v) - start < n
        THEN [ok |-> FALSE, bytes |-> <<>>, position |-> Len(c.v)]
        ELSE [ok |-> TRUE,
              bytes |-> SubSeq(c.v, start + 1, start + n),
              position |-> c.position + n]

(***************************************************************************)
(* ByteOrder: BigEndian takes the first byte read as the most significant, *)
(* LittleEndian as the least significant.  The result is the value's bytes *)
(* most significant first.                                                 *)
(***************************************************************************)
\* faulty variant: the byte order is ignored
from_bytes_big_only(endian, bytes) == bytes

\* faulty variant: the two byte orders are exchanged
from_bytes_swapped(endian, bytes) ==
    IF endian = "Big" THEN Reverse(bytes) ELSE bytes

from_bytes(endian, bytes) ==
    IF endian = "Little" THEN Reverse(bytes) ELSE bytes

\* context.clone().read_uN::<E>() and its signed and float forms: the value
\* read through d from a clone of the cursor, and the clone's position after
read_value(c, d) ==
    LET r == read_exact(c, size(d))
    IN  IF r.ok
        THEN [ok |-> TRUE, bits |-> from_bytes(d.endian, r.bytes),
              position |-> r.position]
        ELSE [ok |-> FALSE, bits |-> <<>>, position |-> r.position]

(***************************************************************************)
(* Integer casts.  `v as u64` of an unsigned value zero-extends; `v as     *)
(* i64` of a signed value copies the sign bit into the new high bytes.     *)
(***************************************************************************)
zero_extend(bits, n) == Repeat(0, n - Len(bits)) \o bits

\* faulty variant: the new high bytes are zero whatever the sign
sign_extend_zero_fill(bits, n) == Repeat(0, n - Len(bits)) \o bits

sign_extend(bits, n) ==
    Repeat(IF bits[1] >= 128 THEN 255 ELSE 0, n - Len(bits)) \o bits

Ok(v) == [ok |-> TRUE, val |-> v]
Err(e) == [ok |-> FALSE, err |-> e]

\* faulty variant: a signed shape is read and its bits returned as unsigned
to_u64_reinterpret(c, d) ==
    IF d.ty \in {"U8", "U16", "U32", "U64", "I8", "I16", "I32", "I64"}
    THEN LET r == read_value(c, d)
         IN  IF r.ok THEN Ok(zero_extend(r.bits, 8)) ELSE Err("read")
    ELSE Err("convert")

\* SizedDefinition::to_u64
to_u64(c, d) ==
    IF d.ty \in {"U8", "U16", "U32", "U64"}
    THEN LET r == read_value(c, d)
         IN  IF r.ok THEN Ok(zero_extend(r.bits, 8)) ELSE Err("read")
    ELSE Err("convert")

\* faulty variant: the 16- and 32-bit values are read as unsigned, so that
\* the cast does not extend their sign
as_i64_unsigned_16_32(bits) ==
    IF Len(bits) \in {2, 4} THEN zero_extend(bits, 8) ELSE sign_extend(bits, 8)

\* the `v as i64` of to_i64's I8, I16, I32 and I64 arms
as_i64(bits) == sign_extend(bits, 8)

\* faulty variant: an unsigned shape is read and its bits returned as signed
to_i64_reinterpret(c, d) ==
    IF d.ty \in {"I8", "I16", "I32", "I64", "U8", "U16", "U32", "U64"}
    THEN LET r == read_value(c, d)
         IN  IF r.ok THEN Ok(as_i64(r.bits)) ELSE Err("read")
    ELSE Err("convert")

\* SizedDefinition::to_i64
to_i64(c, d) ==
    IF d.ty \in {"I8", "I16", "I32", "I64"}
    THEN LET r == read_value(c, d)
         IN  IF r.ok THEN Ok(as_i64(r.bits)) ELSE Err("read")
    ELSE Err("convert")

(***************************************************************************)
(* Formatting (core::fmt as the format! calls of lib.rs use it).           *)
(***************************************************************************)
LowerDigits ==
    <<"0", "1", "2", "3", "4", "5", "6", "7",
      "8", "9", "a", "b", "c", "d", "e", "f">>

Digit(n) == LowerDigits[n + 1]

\* the value's base-16 digits, two per byte, leading zeros included
Nibbles(bits) ==
    [i \in 1..(2 * Len(bits)) |->
        IF i % 2 = 1 THEN bits[(i + 1) \div 2] \div 16
        ELSE bits[i \div 2] % 16]

\* the value's base-2 digits, eight per byte, leading zeros included
Bits(bits) ==
    [i \in 1..(8 * Len(bits)) |->
        (bits[((i - 1) \div 8) + 1] \div (2 ^ (7 - ((i - 1) % 8)))) % 2]

Digits(ns) == [i \in 1..Len(ns) |-> Digit(ns[i])]

\* {:x}: the bit pattern in base 16, minimal, at least one digit (a signed
\* value is formatted as its two's-complement pattern, without a sign)
fmt_lower_hex(bits) == Digits(StripLeading(Nibbles(bits), 0))

\* faulty variant: every leading zero is removed, so that 0 has no digit
fmt_binary_strip_all(bits) ==
    LET bs == StripLeading(Bits(bits), 0)
    IN  IF bs = <<0>> THEN <<>> ELSE Digits(bs)

\* {:b}: likewise in base 2
fmt_binary(bits) == Digits(StripLeading(Bits(bits), 0))

\* {:o}: likewise in base 8, three bits per digit from the least significant
OctalGroups(bs) ==
    [k \in 1..(Len(bs) \div 3) |->
        bs[3 * k - 2] * 4 + bs[3 * k - 1] * 2 + bs[3 * k]]

fmt_octal(bits) ==
    LET bs == Bits(bits)
        lead == (3 - (Len(bs) % 3)) % 3
    IN  Digits(StripLeading(OctalGroups(Repeat(0, lead) \o bs), 0))

\* the 0 flag with a width, {:0Wx} and {:0Wb}: zeros in front up to W
\* characters; a text already W long or longer is unchanged
pad_zero(w, text) ==
    IF Len(text) < w THEN Repeat("0", w - Len(text)) \o text ELSE text

\* str::to_uppercase on the characters the formatters produce
UpperChar(ch) ==
    CASE ch = "a" -> "A" [] ch = "b" -> "B" [] ch = "c" -> "C"
      [] ch = "d" -> "D" [] ch = "e" -> "E" [] ch = "f" -> "F"
      [] ch = "i" -> "I" [] ch = "n" -> "N" [] ch = "x" -> "X"
      [] OTHER -> ch

to_uppercase(text) == [i \in 1..Len(text) |-> UpperChar(text[i])]

(***************************************************************************)
(* Decimal digits of an unsigned byte sequence, by repeated division (as   *)
(* core::fmt produces them, four digits to a division by 10000).           *)
(***************************************************************************)
\* one long division of the bytes by m < 32768, two bytes to a step (one
\* when a single byte is left): <<quotient bytes, remainder>>
RECURSIVE DivBy(_, _, _, _)
DivBy(bits, m, i, acc) ==
    IF i > Len(bits) THEN acc
    ELSE IF i = Len(bits)
    THEN LET cur == acc[2] * 256 + bits[i]
         IN  <<Append(acc[1], cur \div m), cur % m>>
    ELSE LET cur == acc[2] * 65536 + bits[i] * 256 + bits[i + 1]
             q == cur \div m
         IN  DivBy(bits, m, i + 2,
                   <<acc[1] \o <<q \div 256, q % 256>>, cur % m>>)

IsZero(bits) == \A i \in 1..Len(bits) : bits[i] = 0

\* the decimal digits of a small natural number
RECURSIVE NatText(_)
NatText(n) ==
    IF n < 10 THEN <<Digit(n)>> ELSE NatText(n \div 10) \o <<Digit(n % 10)>>

\* the four decimal digits of a number below 10000
FourDigits(n) ==
    <<Digit(n \div 1000), Digit((n \div 100) % 10),
      Digit((n \div 10) % 10), Digit(n % 10)>>

RECURSIVE DecimalOf(_)
DecimalOf(bits) ==
    LET qr == DivBy(bits, 10000, 1, <<<<>>, 0>>)
    IN  IF IsZero(qr[1]) THEN NatText(qr[2])
        ELSE DecimalOf(qr[1]) \o FourDigits(qr[2])

fmt_unsigned(bits) == DecimalOf(bits)

\* two's-complement negation: invert every bit and add one
AddOne(bits, i) ==
    LET stop == {j \in 1..i : bits[j] # 255}
        k == IF stop = {} THEN 0
             ELSE CHOOSE j \in stop : \A n \in stop : n <= j
    IN  [j \in 1..Len(bits) |->
            IF j = k THEN bits[j] + 1
            ELSE IF j > k /\ j <= i THEN 0 ELSE bits[j]]

Negate(bits) == AddOne([i \in 1..Len(bits) |-> 255 - bits[i]], Len(bits))

IsNegative(bits) == bits[1] >= 128

\* {} of a signed integer: '-' and the magnitude when negative
fmt_signed(bits) ==
    IF IsNegative(bits) THEN <<"-">> \o fmt_unsigned(Negate(bits))
    ELSE fmt_unsigned(bits)

\* {:e} of an integer: the first digit, the remaining digits without the
\* trailing zeros after a '.', 'e', and the count of digits after the first
\* faulty variant: the trailing zeros are kept in the mantissa
fmt_exp_digits_keep_zeros(ds) ==
    <<ds[1]>>
    \o (IF Len(ds) > 1 THEN <<".">> \o Tail(ds) ELSE <<>>)
    \o <<"e">> \o NatText(Len(ds) - 1)

fmt_exp_digits(ds) ==
    LET mant == StripTrailing(ds, "0")
    IN  <<mant[1]>>
        \o (IF Len(mant) > 1 THEN <<".">> \o Tail(mant) ELSE <<>>)
        \o <<"e">> \o NatText(Len(ds) - 1)

fmt_lower_exp(bits, signed) ==
    IF signed /\ IsNegative(bits)
    THEN <<"-">> \o fmt_exp_digits(fmt_unsigned(Negate(bits)))
    ELSE fmt_exp_digits(fmt_unsigned(bits))

(***************************************************************************)
(* Floats.  The digits of a finite non-zero float are those of the host's  *)
(* shortest round-trip conversion, which this model leaves uninterpreted:  *)
(* they are stood for by '#' and the value's bit pattern in upper-case     *)
(* hexadecimal.  Zero, the infinities and NaN are rendered as core::fmt    *)
(* renders them.                                                           *)
(***************************************************************************)
UpperDigits ==
    <<"0", "1", "2", "3", "4", "5", "6", "7",
      "8", "9", "A", "B", "C", "D", "E", "F">>

FloatImage(bits) ==
    <<"#">> \o [i \in 1..(2 * Len(bits)) |-> UpperDigits[Nibbles(bits)[i] + 1]]

\* the exponent field is all ones: an infinity or a NaN
ExponentAllOnes(bits) ==
    IF Len(bits) = 4
    THEN bits[1] % 128 = 127 /\ bits[2] >= 128
    ELSE bits[1] % 128 = 127 /\ bits[2] >= 240

FractionIsZero(bits) ==
    /\ (IF Len(bits) = 4 THEN bits[2] % 128 = 0 ELSE bits[2] % 16 = 0)
    /\ \A i \in 3..Len(bits) : bits[i] = 0

FloatIsNaN(bits) == ExponentAllOnes(bits) /\ ~FractionIsZero(bits)
FloatIsInf(bits) == ExponentAllOnes(bits) /\ FractionIsZero(bits)
FloatIsZero(bits) == bits[1] % 128 = 0 /\ \A i \in 2..Len(bits) : bits[i] = 0

FloatSign(bits) == IF bits[1] >= 128 THEN <<"-">> ELSE <<>>

\* {} of a float
fmt_float(bits) ==
    IF FloatIsNaN(bits) THEN <<"N", "a", "N">>
    ELSE IF FloatIsInf(bits) THEN FloatSign(bits) \o <<"i", "n", "f">>
    ELSE IF FloatIsZero(bits) THEN FloatSign(bits) \o <<"0">>
    ELSE FloatImage(bits)

\* {:e} of a float
fmt_float_exp(bits) ==
    IF FloatIsNaN(bits) THEN <<"N", "a", "N">>
    ELSE IF FloatIsInf(bits) THEN FloatSign(bits) \o <<"i", "n", "f">>
    ELSE IF FloatIsZero(bits) THEN FloatSign(bits) \o <<"0", "e", "0">>
    ELSE FloatImage(bits) \o <<"e", "#">>

(***************************************************************************)
(* SizedDisplay and the display_* functions of lib.rs.  A value v is       *)
(* [ty, bits]: the boxed number of type ty, whose mem::size_of_val is the  *)
(* number of its bytes.                                                    *)
(***************************************************************************)
Display(mode, uppercase, prefix, padded) ==
    [mode |-> mode, uppercase |-> uppercase, prefix |-> prefix,
     padded |-> padded]

SizedDisplay ==
    {Display("Hex", u, p, z) : u \in BOOLEAN, p \in BOOLEAN, z \in BOOLEAN}
    \cup {Display("Decimal", FALSE, FALSE, FALSE)}
    \cup {Display("Octal", FALSE, FALSE, FALSE)}
    \cup {Display("Binary", FALSE, FALSE, z) : z \in BOOLEAN}
    \cup {Display("Scientific", u, FALSE, FALSE) : u \in BOOLEAN}

\* faulty variant: the default has no prefix
HexDefault_no_prefix == Display("Hex", FALSE, FALSE, TRUE)

\* HexOptions::default, BinaryOptions::default, ScientificOptions::default
HexDefault == Display("Hex", FALSE, TRUE, TRUE)
BinaryDefault == Display("Binary", FALSE, FALSE, TRUE)
ScientificDefault == Display("Scientific", FALSE, FALSE, FALSE)

\* faulty variant: the size measured is that of the box's pointer
size_of_val_of_pointer(v) == 8

\* mem::size_of_val(v) of the boxed number
size_of_val(v) == Len(v.bits)

IsSignedTy(ty) == ty \in SignedTys

\* faulty variant: the upper-casing is applied after the prefix is added
display_hex_upper_last(v, options) ==
    LET w == size_of_val(v) * 2
        h0 == IF ~options.padded THEN fmt_lower_hex(v.bits)
              ELSE IF w \in {2, 4, 8, 16, 32}
                   THEN pad_zero(w, fmt_lower_hex(v.bits))
                   ELSE fmt_lower_hex(v.bits)
        h1 == IF options.prefix THEN <<"0", "x">> \o h0 ELSE h0
    IN  IF options.uppercase THEN to_uppercase(h1) ELSE h1

\* faulty variant: the match has no arm for the 32 digits of a 128-bit value
display_hex_without_32(v, options) ==
    LET w == size_of_val(v) * 2
        h0 == IF ~options.padded THEN fmt_lower_hex(v.bits)
              ELSE IF w \in {2, 4, 8, 16}
                   THEN pad_zero(w, fmt_lower_hex(v.bits))
                   ELSE fmt_lower_hex(v.bits)
        h1 == IF options.uppercase THEN to_uppercase(h0) ELSE h0
    IN  IF options.prefix THEN <<"0", "x">> \o h1 ELSE h1

display_hex(v, options) ==
    LET w == size_of_val(v) * 2
        h0 == IF ~options.padded THEN fmt_lower_hex(v.bits)
              ELSE IF w \in {2, 4, 8, 16, 32}
                   THEN pad_zero(w, fmt_lower_hex(v.bits))
                   ELSE fmt_lower_hex(v.bits)
        h1 == IF options.uppercase THEN to_uppercase(h0) ELSE h0
    IN  IF options.prefix THEN <<"0", "x">> \o h1 ELSE h1

\* faulty variant: a signed value is formatted as its unsigned bit pattern
display_decimal_unsigned(v) ==
    IF v.ty \in FloatTys THEN fmt_float(v.bits) ELSE fmt_unsigned(v.bits)

display_decimal(v) ==
    IF v.ty \in FloatTys THEN fmt_float(v.bits)
    ELSE IF IsSignedTy(v.ty) THEN fmt_signed(v.bits)
    ELSE fmt_unsigned(v.bits)

\* faulty variant: the alternate form, with its "0o" in front
display_octal_alternate(v) == <<"0", "o">> \o fmt_octal(v.bits)

\* faulty variant: a negative value is rendered as '-' and its magnitude
display_octal_signed(v) ==
    IF IsSignedTy(v.ty) /\ IsNegative(v.bits)
    THEN <<"-">> \o fmt_octal(Negate(v.bits))
    ELSE fmt_octal(v.bits)

display_octal(v) == fmt_octal(v.bits)

\* faulty variant: the padding pads to the byte, not to the type's width
display_binary_byte_padded(v, options) ==
    IF ~options.padded THEN fmt_binary(v.bits)
    ELSE pad_zero(8, fmt_binary(v.bits))

display_binary(v, options) ==
    LET w == size_of_val(v) * 8
    IN  IF ~options.padded THEN fmt_binary(v.bits)
        ELSE IF w \in {8, 16, 32, 64, 128}
             THEN pad_zero(w, fmt_binary(v.bits))
             ELSE fmt_binary(v.bits)

display_scientific(v, options) ==
    LET e == IF v.ty \in FloatTys THEN fmt_float_exp(v.bits)
             ELSE fmt_lower_exp(v.bits, IsSignedTy(v.ty))
    IN  IF options.uppercase THEN to_uppercase(e) ELSE e

\* faulty variant: the float arms render the bit pattern as the integer
\* arms do
to_string_internal_float_bits(c, d, display) ==
    LET r == read_value(c, d)
        v == [ty |-> d.ty, bits |-> r.bits]
    IN  IF ~r.ok THEN Err("read")
        ELSE CASE display.mode = "Hex" -> Ok(display_hex(v, display))
               [] display.mode = "Decimal" -> Ok(display_decimal(v))
               [] display.mode = "Octal" -> Ok(display_octal(v))
               [] display.mode = "Binary" -> Ok(display_binary(v, display))
               [] display.mode = "Scientific" ->
                      Ok(display_scientific(v, display))

\* faulty variant: the float arms look at the display mode before they read
to_string_internal_mode_first(c, d, display) ==
    LET r == read_value(c, d)
        v == [ty |-> d.ty, bits |-> r.bits]
    IN  IF d.ty \in FloatTys /\ display.mode = "Hex" THEN Err("float_hex")
        ELSE IF d.ty \in FloatTys /\ display.mode = "Octal"
        THEN Err("float_octal")
        ELSE IF d.ty \in FloatTys /\ display.mode = "Binary"
        THEN Err("float_binary")
        ELSE IF ~r.ok THEN Err("read")
        ELSE CASE display.mode = "Hex" -> Ok(display_hex(v, display))
               [] display.mode = "Decimal" -> Ok(display_decimal(v))
               [] display.mode = "Octal" -> Ok(display_octal(v))
               [] display.mode = "Binary" -> Ok(display_binary(v, display))
               [] display.mode = "Scientific" ->
                      Ok(display_scientific(v, display))

\* SizedDefinition::to_string_internal: read first, then match on display
to_string_internal(c, d, display) ==
    LET r == read_value(c, d)
        v == [ty |-> d.ty, bits |-> r.bits]
    IN  IF ~r.ok THEN Err("read")
        ELSE IF d.ty \in FloatTys
        THEN CASE display.mode = "Hex" -> Err("float_hex")
               [] display.mode = "Decimal" -> Ok(display_decimal(v))
               [] display.mode = "Octal" -> Err("float_octal")
               [] display.mode = "Binary" -> Err("float_binary")
               [] display.mode = "Scientific" ->
                      Ok(display_scientific(v, display))
        ELSE CASE display.mode = "Hex" -> Ok(display_hex(v, display))
               [] display.mode = "Decimal" -> Ok(display_decimal(v))
               [] display.mode = "Octal" -> Ok(display_octal(v))
               [] display.mode = "Binary" -> Ok(display_binary(v, display))
               [] display.mode = "Scientific" ->
                      Ok(display_scientific(v, display))

\* SizedDefinition::to_string: the text, or the error wrapped in a message
to_string(c, d, display) == to_string_internal(c, d, display)

(***************************************************************************)
(* SizedInteger<T> of sized_integer.rs and of integer.rs: a value read     *)
(* from the cursor and kept, with its own to_string.  A SizedInteger is,   *)
(* as the boxed value above, [ty, bits]; mem::size_of::<T>() is the number *)
(* of its bytes.                                                           *)
(***************************************************************************)
\* {:X}: the bit pattern in base 16 with the digits A-F
fmt_upper_hex(bits) ==
    LET ns == StripLeading(Nibbles(bits), 0)
    IN  [i \in 1..Len(ns) |-> UpperDigits[ns[i] + 1]]

\* {:E} of an integer: {:e} with the marker 'E'
fmt_upper_exp(bits, signed) ==
    LET e == fmt_lower_exp(bits, signed)
    IN  [i \in 1..Len(e) |-> IF e[i] = "e" THEN "E" ELSE e[i]]

\* SizedInteger::<T>::read::<E>(context): context.clone().read_*::<E>()
SizedInteger_read(c, d) ==
    LET r == read_value(c, d)
    IN  IF r.ok THEN Ok([ty |-> d.ty, bits |-> r.bits]) ELSE Err("read")

\* SizedInteger::size (sized_integer.rs): mem::size_of::<T>()
SizedInteger_size(v) == Len(v.bits)

\* the Hex arm of sized_integer.rs SizedInteger::to_string
SizedInteger_hex(v, options) ==
    LET w == SizedInteger_size(v) * 2
        lower == fmt_lower_hex(v.bits)
        upper == fmt_upper_hex(v.bits)
        P == IF options.prefix THEN <<"0", "x">> ELSE <<>>
    IN  IF ~options.padded
        THEN P \o (IF options.uppercase THEN upper ELSE lower)
        ELSE IF w \in {2, 4, 8, 16, 32}
        THEN P \o (IF options.uppercase THEN pad_zero(w, upper)
                   ELSE pad_zero(w, lower))
        ELSE P \o (IF options.uppercase THEN upper ELSE lower)

\* the Binary arm of sized_integer.rs SizedInteger::to_string
SizedInteger_binary(v, options) ==
    LET w == SizedInteger_size(v) * 8
    IN  IF ~options.padded THEN fmt_binary(v.bits)
        ELSE IF w \in {8, 16, 32, 64, 128}
             THEN pad_zero(w, fmt_binary(v.bits))
             ELSE fmt_binary(v.bits)

\* sized_integer.rs SizedInteger::to_string
SizedInteger_to_string(v, display) ==
    CASE display.mode = "Binary" -> SizedInteger_binary(v, display)
      [] display.mode = "Decimal" ->
             IF IsSignedTy(v.ty) THEN fmt_signed(v.bits)
             ELSE fmt_unsigned(v.bits)
      [] display.mode = "Hex" -> SizedInteger_hex(v, display)
      [] display.mode = "Octal" -> fmt_octal(v.bits)
      [] display.mode = "Scientific" ->
             IF display.uppercase
             THEN fmt_upper_exp(v.bits, IsSignedTy(v.ty))
             ELSE fmt_lower_exp(v.bits, IsSignedTy(v.ty))

\* faulty variant: the padding is counted on the text with its prefix
integer_hex_counts_prefix(v, options) ==
    LET lower == fmt_lower_hex(v.bits)
        current_len == Len(lower) + (IF options.prefix THEN 2 ELSE 0)
        total_needed_len == Len(v.bits) * 2
        padding == IF options.padded /\ current_len < total_needed_len
                   THEN Repeat("0", total_needed_len - current_len)
                   ELSE <<>>
        P == IF options.prefix THEN <<"0", "x">> ELSE <<>>
    IN  P \o padding
          \o (IF options.uppercase THEN fmt_upper_hex(v.bits) ELSE lower)

\* the Hex arm of integer.rs SizedInteger::to_string: the padding is made
\* by hand from the length of the {:x} text
integer_hex(v, options) ==
    LET lower == fmt_lower_hex(v.bits)
        current_len == Len(lower)
        total_needed_len == Len(v.bits) * 2
        padding == IF options.padded /\ current_len < total_needed_len
                   THEN Repeat("0", total_needed_len - current_len)
                   ELSE <<>>
        P == IF options.prefix THEN <<"0", "x">> ELSE <<>>
    IN  P \o padding
          \o (IF options.uppercase THEN fmt_upper_hex(v.bits) ELSE lower)

\* integer.rs SizedInteger::to_string (its Binary has no options)
integer_to_string(v, display) ==
    CASE display.mode = "Binary" -> fmt_binary(v.bits)
      [] display.mode = "Decimal" ->
             IF IsSignedTy(v.ty) THEN fmt_signed(v.bits)
             ELSE fmt_unsigned(v.bits)
      [] display.mode = "Hex" -> integer_hex(v, display)
      [] display.mode = "Octal" -> fmt_octal(v.bits)
      [] display.mode = "Scientific" ->
             IF display.uppercase
             THEN fmt_upper_exp(v.bits, IsSignedTy(v.ty))
             ELSE fmt_lower_exp(v.bits, IsSignedTy(v.ty))

(***************************************************************************)
(* Context of context.rs: a cursor in a struct; every read is made on      *)
(* self.cursor(), a clone.                                                 *)
(***************************************************************************)
Context_new(v) == [v |-> v, position |-> 0]

\* faulty variant: an index beyond the end is moved to the end
Context_new_at_clamped(v, index) ==
    [v |-> v, position |-> Min(index, Len(v))]

Context_new_at(v, index) == [v |-> v, position |-> index]

\* faulty variant: the receiver itself is moved, and a copy of it returned
at_in_place(c, new_position) ==
    [self |-> [c EXCEPT !.position = new_position],
     new |-> [c EXCEPT !.position = new_position]]

\* Context::at: a clone of the receiver is moved and returned; self is the
\* receiver after the call, new the cursor returned
at(c, new_position) ==
    [self |-> c, new |-> [c EXCEPT !.position = new_position]]

position(c) == c.position

\* Context::read_u8 .. Context::read_f64, selected by the shape d
Context_read(c, d) ==
    LET r == read_value(c, d)
    IN  IF r.ok THEN Ok([ty |-> d.ty, bits |-> r.bits]) ELSE Err("read")

\* a usize (64 bits) is, as every 64-bit number here, its eight bytes, the
\* most significant first; usize(n) is the count n < 65536 as a usize
usize(n) == <<0, 0, 0, 0, 0, 0, n \div 256, n % 256>>

\* a u64 is represented as a usize is
u64(n) == usize(n)

SizeIsSmall(sz) == \A i \in 1..6 : sz[i] = 0

SizeValue(sz) == sz[7] * 256 + sz[8]

\* min(sz, m) for a usize sz and a small number m
TakeMin(sz, m) == IF SizeIsSmall(sz) THEN Min(SizeValue(sz), m) ELSE m

\* m < sz for a small number m and a usize sz
LessThanSize(m, sz) == IF SizeIsSmall(sz) THEN m < SizeValue(sz) ELSE TRUE

\* a panic or an abort: the call does not return
Panic(msg) == [ok |-> FALSE, panic |-> msg]

\* Vec::<u8>::with_capacity(size), the outcomes it can have: a capacity
\* above isize::MAX panics; a request of 2^47 bytes or more, which no
\* address space holds, is refused by the allocator, which aborts; a request
\* of 2^32 bytes or more is granted or refused as the allocator and the
\* host's memory decide; a smaller request is granted
with_capacity(sz) ==
    IF sz[1] >= 128 THEN {"capacity overflow"}
    ELSE IF sz[1] > 0 \/ sz[2] > 0 \/ sz[3] >= 128
    THEN {"memory allocation failed"}
    ELSE IF sz[3] > 0 \/ sz[4] > 0 THEN {"ok", "memory allocation failed"}
    ELSE {"ok"}

\* faulty variant: a position beyond the end is refused whatever the count
read_bytes_checks_position(c, sz) ==
    LET start == Min(c.position, Len(c.v))
        read_size == TakeMin(sz, Len(c.v) - start)
        v == SubSeq(c.v, start + 1, start + read_size)
        returned == IF c.position > Len(c.v) \/ LessThanSize(read_size, sz)
                    THEN Err("Read past end of buffer")
                    ELSE Ok(v)
    IN  {IF a = "ok" THEN returned ELSE Panic(a) : a \in with_capacity(sz)}

\* Context::read_bytes, the outcomes it can have: the vector is allocated
\* for size bytes first; then take(size).read_to_end reads what is there,
\* up to size bytes; fewer than size is reported as an error
read_bytes(c, sz) ==
    LET start == Min(c.position, Len(c.v))
        read_size == TakeMin(sz, Len(c.v) - start)
        v == SubSeq(c.v, start + 1, start + read_size)
        returned == IF LessThanSize(read_size, sz)
                    THEN Err("Read past end of buffer")
                    ELSE Ok(v)
    IN  {IF a = "ok" THEN returned ELSE Panic(a) : a \in with_capacity(sz)}

(***************************************************************************)
(* The inputs.  Buffers are cut from the byte strings the tests of lib.rs  *)
(* read (repeated when a longer buffer is wanted), an all-zero string and  *)
(* an all-ones string, and the bit patterns of the float infinities.       *)
(***************************************************************************)
\* lib.rs test_to_i64
DataA == <<0, 127, 128, 255, 0, 1, 2, 3, 128, 0, 0, 0, 0, 0, 0, 0>>
\* lib.rs test_binary_i8
DataB == <<0, 0, 18, 171, 255, 255, 255, 255>>
\* lib.rs test_hex_u128_big_endian (second value): every hex digit
DataC == <<0, 17, 34, 51, 68, 85, 102, 119,
           136, 153, 170, 187, 204, 221, 238, 255>>
DataZero == <<0>>
DataOnes == <<255>>
\* lib.rs test_decimal_f32: the f32 values 0, NaN, 25 and 3.14
DataD == <<0, 0, 0, 0, 255, 255, 255, 255, 65, 200, 0, 0, 64, 72, 245, 195>>
\* lib.rs SizedDisplay::Scientific doc example: the u8 value 100
DataE == <<100>>
\* lib.rs test_scientific_u32, test_scientific_i32
DataS == <<0, 0, 0, 0, 127, 255, 255, 255, 128, 0, 0, 0, 255, 255, 255, 255>>
\* the f32 infinities: +inf and -inf big-endian, +inf and -inf little-endian
DataInf32 == <<127, 128, 0, 0, 255, 128, 0, 0, 0, 0, 128, 127, 0, 0, 128, 255>>
\* the f64 infinities: +inf big-endian, -inf little-endian
DataInf64 == <<127, 240, 0, 0, 0, 0, 0, 0, 0, 0, 0, 0, 0, 0, 240, 255>>
\* lib.rs crate doc example: b"ABCD"
DataF == <<65, 66, 67, 68>>

Cut(data, n) == [i \in 1..n |-> data[((i - 1) % Len(data)) + 1]]

Buffers ==
    {Cut(DataA, n) : n \in 0..MaxLen}
    \cup {Cut(data, Len(data)) :
                data \in {DataB, DataC, DataD, DataE, DataF, DataS,
                          DataInf32, DataInf64}}
    \cup {Cut(data, MaxLen) : data \in {DataB, DataZero, DataOnes}}

Positions == 0..MaxPos

\* the cursors on which calls are made in a row
SeqCursors == {<<Cut(DataB, Len(DataB)), p>> : p \in {2, 4, 7}}

\* counts no buffer holds: 2^34, which the allocator may grant; 2^55, above
\* any address space; and, above isize::MAX, isize::MAX + 1 and usize::MAX
HugeSizes ==
    {<<0, 0, 0, 4, 0, 0, 0, 0>>,
     <<0, 128, 0, 0, 0, 0, 0, 0>>,
     <<128, 0, 0, 0, 0, 0, 0, 0>>,
     <<255, 255, 255, 255, 255, 255, 255, 255>>}

ReadSizes == {usize(n) : n \in 0..MaxRead} \cup HugeSizes

NoDef == [ty |-> "None", endian |-> "None"]
NoDisplay == Display("None", FALSE, FALSE, FALSE)
NoCall == [op |-> "none", def |-> NoDef, display |-> NoDisplay,
           n |-> usize(0),
           res |-> Err("none")]

Call(op, d, display, n, res) ==
    [op |-> op, def |-> d, display |-> display, n |-> n, res |-> res]

\* the cursor the caller holds
Cursor == [v |-> buf, position |-> pos]

\* the cursors the constructors give over v at position p: Context::new_at
\* and new_context, and Context::new when p is 0
Constructed(v, p) ==
    {Context_new_at(v, p), new_context(v, p)}
    \cup (IF p = 0 THEN {Context_new(v)} ELSE {})

Init ==
    \E v \in Buffers, p \in Positions :
        \E c \in Constructed(v, p) :
            /\ buf = c.v
            /\ pos = position(c)
            /\ pos0 = p
            /\ left = IF <<v, p>> \in SeqCursors THEN MaxCalls ELSE 1
            /\ last = NoCall
            /\ peers = <<>>

(***************************************************************************)
(* Every operation takes the cursor by shared reference and reads from a   *)
(* clone of it (context.clone() in lib.rs, self.cursor() in context.rs):   *)
(* the clone is advanced by the read and dropped, the caller's cursor      *)
(* keeps its position.                                                     *)
(***************************************************************************)
\* faulty variant: the read is made on the caller's cursor itself
position_after_in_place(c, n) == read_exact(c, n).position

position_after(c, n) == c.position

\* d.to_string(&context, display)
CallToString ==
    \E d \in SizedDefinition, display \in SizedDisplay :
        /\ left > 0
        /\ last' = Call("to_string", d, display, usize(0),
                        to_string(Cursor, d, display))
        /\ pos' = position_after(Cursor, size(d))
        /\ left' = left - 1
        /\ UNCHANGED <<buf, pos0, peers>>

\* d.to_u64(&context)
CallToU64 ==
    \E d \in SizedDefinition :
        /\ left > 0
        /\ last' = Call("to_u64", d, NoDisplay, usize(0), to_u64(Cursor, d))
        /\ pos' = position_after(Cursor, size(d))
        /\ left' = left - 1
        /\ UNCHANGED <<buf, pos0, peers>>

\* d.to_i64(&context)
CallToI64 ==
    \E d \in SizedDefinition :
        /\ left > 0
        /\ last' = Call("to_i64", d, NoDisplay, usize(0), to_i64(Cursor, d))
        /\ pos' = position_after(Cursor, size(d))
        /\ left' = left - 1
        /\ UNCHANGED <<buf, pos0, peers>>

\* context.read_u8() .. context.read_f64(endian)
CallContextRead ==
    \E d \in SizedDefinition :
        /\ left > 0
        /\ last' = Call("read", d, NoDisplay, usize(0), Context_read(Cursor, d))
        /\ pos' = position_after(Cursor, size(d))
        /\ left' = left - 1
        /\ UNCHANGED <<buf, pos0, peers>>

\* context.read_bytes(n)
CallReadBytes ==
    \E n \in ReadSizes :
      \E res \in read_bytes(Cursor, n) :
        /\ left > 0
        /\ last' = Call("read_bytes", NoDef, NoDisplay, n, res)
        /\ pos' = position_after(Cursor, TakeMin(n, Len(buf) + 1))
        /\ left' = left - 1
        /\ UNCHANGED <<buf, pos0, peers>>

\* context.at(q)
CallAt ==
    \E q \in Positions :
        /\ left > 0
        /\ last' = Call("at", NoDef, NoDisplay, usize(q),
                        Ok(at(Cursor, q).new))
        /\ pos' = position(at(Cursor, q).self)
        /\ left' = left - 1
        /\ UNCHANGED <<buf, pos0, peers>>

\* d.size()
CallSize ==
    \E d \in SizedDefinition :
        /\ left > 0
        /\ last' = Call("size", d, NoDisplay, usize(0), Ok(u64(size(d))))
        /\ left' = left - 1
        /\ UNCHANGED <<buf, pos, pos0, peers>>

Next ==
    \/ CallToString
    \/ CallToU64
    \/ CallToI64
    \/ CallContextRead
    \/ CallReadBytes
    \/ CallAt
    \/ CallSize

Spec == Init /\ [][Next]_vars

(***************************************************************************)
(* Several cursors over one buffer.  Beside the caller's cursor (number 0) *)
(* there are the cursors of peers (numbers 1, 2, ...), made by cloning a   *)
(* cursor, by Context::new_at on the same buffer, or by Context::at.  Each *)
(* is kept with the position it was made for and the latest read on it.   *)
(***************************************************************************)
\* faulty variant: the copy starts at the beginning of the buffer
clone_at_start(c) == [c EXCEPT !.position = 0]

\* #[derive(Clone)] on Context: the reference and the position are copied
clone(c) == c

Peer(c, p) == [c |-> c, made |-> p, last |-> NoCall]

CursorOf(j) == IF j = 0 THEN Cursor ELSE peers[j].c

SharedBuffer == Cut(DataB, Len(DataB))
SharedPositions == {0, 3, 7, MaxPos}
SharedShapes ==
    {[ty |-> "U8", endian |-> "None"], [ty |-> "U16", endian |-> "Little"],
     [ty |-> "I32", endian |-> "Big"]}
SharedSizes == {usize(0), usize(3)}

InitShared ==
    \E p \in SharedPositions :
        /\ buf = SharedBuffer
        /\ pos = position(Context_new_at(SharedBuffer, p))
        /\ pos0 = p
        /\ left = MaxShared
        /\ last = NoCall
        /\ peers = <<>>

\* let other = context.clone()
ShareClone ==
    \E j \in 0..Len(peers) :
        /\ left > 0 /\ Len(peers) < MaxPeers
        /\ peers' = Append(peers, Peer(clone(CursorOf(j)),
                                       position(CursorOf(j))))
        /\ left' = left - 1
        /\ UNCHANGED <<buf, pos, pos0, last>>

\* let other = Context::new_at(&data, q)
ShareNewAt ==
    \E q \in SharedPositions :
        /\ left > 0 /\ Len(peers) < MaxPeers
        /\ peers' = Append(peers, Peer(Context_new_at(buf, q), q))
        /\ left' = left - 1
        /\ UNCHANGED <<buf, pos, pos0, last>>

\* let other = context.at(q), on any of the cursors
ShareAt ==
    \E j \in 0..Len(peers), q \in SharedPositions :
        LET r == at(CursorOf(j), q)
            kept == IF j = 0 THEN peers
                    ELSE [peers EXCEPT ![j].c = r.self]
        IN  /\ left > 0 /\ Len(peers) < MaxPeers
            /\ peers' = Append(kept, Peer(r.new, q))
            /\ pos' = IF j = 0 THEN position(r.self) ELSE pos
            /\ left' = left - 1
            /\ UNCHANGED <<buf, pos0, last>>

\* the call and the position after it are recorded with cursor j
Recorded(j, call, after) ==
    IF j = 0
    THEN /\ last' = call
         /\ pos' = after
         /\ UNCHANGED peers
    ELSE /\ peers' = [peers EXCEPT ![j].last = call,
                                   ![j].c.position = after]
         /\ UNCHANGED <<last, pos>>

\* context.read_u8() .. context.read_f64(endian), on any of the cursors
ShareRead ==
    \E j \in 0..Len(peers), d \in SharedShapes :
        /\ left > 0
        /\ Recorded(j, Call("read", d, NoDisplay, usize(0),
                            Context_read(CursorOf(j), d)),
                    position_after(CursorOf(j), size(d)))
        /\ left' = left - 1
        /\ UNCHANGED <<buf, pos0>>

\* context.read_bytes(n), on any of the cursors
ShareReadBytes ==
    \E j \in 0..Len(peers), n \in SharedSizes :
      \E res \in read_bytes(CursorOf(j), n) :
        /\ left > 0
        /\ Recorded(j, Call("read_bytes", NoDef, NoDisplay, n, res),
                    position_after(CursorOf(j), TakeMin(n, Len(buf) + 1)))
        /\ left' = left - 1
        /\ UNCHANGED <<buf, pos0>>

NextShared ==
    \/ ShareClone
    \/ ShareNewAt
    \/ ShareAt
    \/ ShareRead
    \/ ShareReadBytes

SpecShared == InitShared /\ [][NextShared]_vars

(***************************************************************************)
(* The three hex renderers on one value: lib.rs to_string, and the         *)
(* SizedInteger of sized_integer.rs and of integer.rs, each reading the    *)
(* value at the cursor through the same integer type and byte order and    *)
(* rendering it with the same Hex options.                                 *)
(***************************************************************************)
IntegerShapes == {d \in SizedDefinition : d.ty \in IntegerTys}

HexDisplays == {o \in SizedDisplay : o.mode = "Hex"}

RenderBuffers ==
    {Cut(data, Len(data)) : data \in {DataA, DataB, DataC, DataS, DataF}}
    \cup {Cut(data, MaxLen) : data \in {DataZero, DataOnes}}

RenderPositions == {0, 1, 4, 8, MaxPos}

InitRender ==
    \E v \in RenderBuffers, p \in RenderPositions :
        /\ buf = v
        /\ pos = p
        /\ pos0 = p
        /\ left = 1
        /\ last = NoCall
        /\ peers = <<>>

\* d.to_string(&context, SizedDisplay::Hex(options)) of lib.rs
RenderLib ==
    \E d \in IntegerShapes, options \in HexDisplays :
        /\ left > 0
        /\ last' = Call("lib_hex", d, options, usize(0),
                        to_string(Cursor, d, options))
        /\ left' = left - 1
        /\ UNCHANGED <<buf, pos, pos0, peers>>

\* SizedInteger::<T>::read::<E>(&context)?.to_string(IntegerDisplay::Hex(..))
\* of sized_integer.rs
RenderSizedInteger ==
    \E d \in IntegerShapes, options \in HexDisplays :
        LET r == SizedInteger_read(Cursor, d)
        IN  /\ left > 0
            /\ last' = Call("sized_integer_hex", d, options, usize(0),
                            IF r.ok
                            THEN Ok(SizedInteger_to_string(r.val, options))
                            ELSE Err("read"))
            /\ left' = left - 1
            /\ UNCHANGED <<buf, pos, pos0, peers>>

\* SizedInteger::<T>::read::<E>(&context)?.to_string(NumberDisplay::Hex(..))
\* of integer.rs
RenderInteger ==
    \E d \in IntegerShapes, options \in HexDisplays :
        LET r == SizedInteger_read(Cursor, d)
        IN  /\ left > 0
            /\ last' = Call("integer_hex", d, options, usize(0),
                            IF r.ok
                            THEN Ok(integer_to_string(r.val, options))
                            ELSE Err("read"))
            /\ left' = left - 1
            /\ UNCHANGED <<buf, pos, pos0, peers>>

NextRender ==
    \/ RenderLib
    \/ RenderSizedInteger
    \/ RenderInteger

SpecRender == InitRender /\ [][NextRender]_vars

(***************************************************************************)
(* Properties.  They speak of the latest call (last), of the buffer and    *)
(* of the position the cursor was given, and compute what they expect      *)
(* from the buffer's bytes directly.                                       *)
(***************************************************************************)
Decimal == Display("Decimal", FALSE, FALSE, FALSE)

\* the window [o, o + size(d)) lies inside the buffer
Fits(d) == pos0 + size(d) <= Len(buf)

\* the byte of the window that has significance 256^k in d's byte order
Significant(d, k) ==
    IF d.endian = "Little" THEN buf[pos0 + 1 + k] ELSE buf[pos0 + size(d) - k]

\* the byte of significance 256^k of a 64-bit result
Byte64(val, k) == val[8 - k]

\* C1: a read through any definition d at offset o of a buffer of length n
\* (to_string with Decimal) returns Ok if and only if o + d.size() <= n, so
\* it is an error for every o + d.size() > n, every o > n included.
C1_ReadOkIffFits ==
    (last.op = "to_string" /\ last.display = Decimal)
        => (last.res.ok <=> pos0 + size(last.def) <= Len(buf))

\* a 16-byte read that ends exactly at the end of the buffer has succeeded
C1_Witness ==
    /\ last.op = "to_string" /\ last.display = Decimal
    /\ last.def.ty = "U128"
    /\ pos0 = 1 /\ Len(buf) = 17
    /\ last.res.ok

\* the results the latest call can have when made on the cursor as it was
\* constructed: one, but for read_bytes where the allocator has a say
OnConstructed(call) ==
    LET c == new_context(buf, pos0)
    IN  CASE call.op = "to_string" -> {to_string(c, call.def, call.display)}
          [] call.op = "to_u64" -> {to_u64(c, call.def)}
          [] call.op = "to_i64" -> {to_i64(c, call.def)}
          [] call.op = "read" -> {Context_read(c, call.def)}
          [] call.op = "read_bytes" -> read_bytes(c, call.n)
          [] call.op = "at" -> {Ok(at(c, SizeValue(call.n)).new)}
          [] call.op = "size" -> {Ok(u64(size(call.def)))}

\* C2: no read changes the cursor it is given: after any calls of the
\* reads, of to_string, to_u64 and to_i64, position() is the position the
\* cursor was constructed with, and a call returns what the same call
\* returns on the cursor as constructed, that is, what it returned the
\* first time.
C2_ReadsLeaveCursor ==
    /\ position(Cursor) = pos0
    /\ last.op # "none" => last.res \in OnConstructed(last)

\* two calls were made on one cursor, the second a successful read
C2_Witness ==
    /\ <<buf, pos0>> \in SeqCursors
    /\ left = 0
    /\ last.op = "read" /\ last.res.ok
    /\ position(Cursor) = pos0

\* C3: for d in U8, U16, U32, U64 and a window inside the buffer, to_u64
\* returns the unsigned value of the window's bytes in d's byte order,
\* zero-extended to 64 bits, which is below 256^size.
C3_ToU64Value ==
    (last.op = "to_u64" /\ last.def.ty \in {"U8", "U16", "U32", "U64"}
     /\ Fits(last.def))
        => /\ last.res.ok
           /\ Len(last.res.val) = 8
           /\ \A k \in 0..7 :
                Byte64(last.res.val, k) =
                    IF k < size(last.def) THEN Significant(last.def, k) ELSE 0
           /\ size(last.def) <= 2 =>
                Byte64(last.res.val, 1) * 256 + Byte64(last.res.val, 0) =
                    IF size(last.def) = 1 THEN buf[pos0 + 1]
                    ELSE IF last.def.endian = "Little"
                    THEN buf[pos0 + 2] * 256 + buf[pos0 + 1]
                    ELSE buf[pos0 + 1] * 256 + buf[pos0 + 2]

\* a little-endian U32 was converted whose bytes differ from their reverse
C3_Witness ==
    /\ last.op = "to_u64"
    /\ last.def = [ty |-> "U32", endian |-> "Little"]
    /\ Fits(last.def)
    /\ buf[pos0 + 1] # buf[pos0 + 4]
    /\ last.res.ok

\* the value of a 64-bit two's-complement result of small magnitude
Int64(val) ==
    IF val[1] >= 128
    THEN -((255 - val[6]) * 65536 + (255 - val[7]) * 256 + (255 - val[8]) + 1)
    ELSE val[6] * 65536 + val[7] * 256 + val[8]

\* C4: for d in I8, I16, I32, I64 and a window inside the buffer, to_i64
\* returns the two's-complement value of the window, sign-extended to 64
\* bits: with the top bit of the most significant byte set it is the
\* unsigned value minus 256^size, and negative; otherwise it is the
\* unsigned value.  The 16- and 32-bit shapes behave as the others.
C4_ToI64Value ==
    (last.op = "to_i64" /\ last.def.ty \in {"I8", "I16", "I32", "I64"}
     /\ Fits(last.def))
        => LET d == last.def
               top == Significant(d, size(d) - 1) >= 128
           IN  /\ last.res.ok
               /\ Len(last.res.val) = 8
               /\ \A k \in 0..7 :
                    Byte64(last.res.val, k) =
                        IF k < size(d) THEN Significant(d, k)
                        ELSE IF top THEN 255 ELSE 0
               /\ size(d) = 1 =>
                    Int64(last.res.val) =
                        buf[pos0 + 1] - (IF top THEN 256 ELSE 0)
               /\ size(d) = 2 =>
                    Int64(last.res.val) =
                        Significant(d, 1) * 256 + Significant(d, 0)
                            - (IF top THEN 65536 ELSE 0)
               /\ top <=> last.res.val[1] >= 128

\* a negative 32-bit value was converted
C4_Witness ==
    /\ last.op = "to_i64"
    /\ last.def = [ty |-> "I32", endian |-> "Big"]
    /\ Fits(last.def)
    /\ buf[pos0 + 1] >= 128
    /\ last.res.ok
    /\ last.res.val[1] = 255

\* C5: to_u64 returns an error for U128, for every signed shape and for F32
\* and F64, whatever the endianness, the buffer and the offset.
C5_ToU64Refuses ==
    (last.op = "to_u64" /\ last.def.ty \notin {"U8", "U16", "U32", "U64"})
        => ~last.res.ok

\* to_u64 was asked for a signed byte that is there to be read
C5_Witness ==
    /\ last.op = "to_u64"
    /\ last.def.ty = "I8"
    /\ Fits(last.def)
    /\ ~last.res.ok

\* C6: to_i64 returns an error for I128, for every unsigned shape and for
\* F32 and F64, whatever the endianness, the buffer and the offset.
C6_ToI64Refuses ==
    (last.op = "to_i64" /\ last.def.ty \notin {"I8", "I16", "I32", "I64"})
        => ~last.res.ok

\* to_i64 was asked for an unsigned 64-bit value that is there to be read
C6_Witness ==
    /\ last.op = "to_i64"
    /\ last.def.ty = "U64"
    /\ Fits(last.def)
    /\ ~last.res.ok

\* C7: to_u64 on U8..U64 and to_i64 on I8..I64 check the bounds as a plain
\* read does: Ok exactly when o + d.size() <= n, and an error, never a
\* value built from fewer bytes, when o + d.size() > n.
C7_ConversionBounds ==
    (\/ last.op = "to_u64" /\ last.def.ty \in {"U8", "U16", "U32", "U64"}
     \/ last.op = "to_i64" /\ last.def.ty \in {"I8", "I16", "I32", "I64"})
        => /\ last.res.ok <=> pos0 + size(last.def) <= Len(buf)
           /\ ~Fits(last.def) => last.res = Err("read")

\* a 32-bit conversion was refused with some, but not all, of its bytes in
\* the buffer
C7_Witness ==
    /\ last.op = "to_i64"
    /\ last.def.ty = "I32"
    /\ pos0 < Len(buf) /\ pos0 + 4 > Len(buf)
    /\ ~last.res.ok

HexDigitChars ==
    {"0", "1", "2", "3", "4", "5", "6", "7", "8", "9",
     "a", "b", "c", "d", "e", "f", "A", "B", "C", "D", "E", "F"}

\* a Hex text without the prefix the options asked for
AfterPrefix(text, display) ==
    IF display.prefix THEN SubSeq(text, 3, Len(text)) ELSE text

IsHexCall == last.op = "to_string" /\ last.display.mode = "Hex"
             /\ last.def.ty \in IntegerTys /\ last.res.ok

\* C8: for every integer shape and every value read through it, Hex with
\* padded = true gives exactly 2 * size() hex digits after the optional
\* prefix, whatever the value; the value 0 gives 2 * size() characters '0'.
C8_HexPaddedWidth ==
    (IsHexCall /\ last.display.padded)
        => LET ds == AfterPrefix(last.res.val, last.display)
           IN  /\ Len(ds) = 2 * size(last.def)
               /\ \A i \in 1..Len(ds) : ds[i] \in HexDigitChars
               /\ (\A k \in 0..(size(last.def) - 1) :
                        Significant(last.def, k) = 0)
                    => \A i \in 1..Len(ds) : ds[i] = "0"

\* a 128-bit zero was rendered as 32 zeros
C8_Witness ==
    /\ IsHexCall
    /\ last.display = Display("Hex", FALSE, FALSE, TRUE)
    /\ last.def.ty = "U128"
    /\ \A k \in 0..15 : Significant(last.def, k) = 0
    /\ last.res.val = Repeat("0", 32)

IsBinaryCall == last.op = "to_string" /\ last.display.mode = "Binary"
                /\ last.def.ty \in IntegerTys /\ last.res.ok

Pow2(k) == CASE k = 0 -> 1 [] k = 1 -> 2 [] k = 2 -> 4 [] k = 3 -> 8
             [] k = 4 -> 16 [] k = 5 -> 32 [] k = 6 -> 64 [] k = 7 -> 128

\* bit j (0 the least significant) of the window's value
WindowBit(d, j) == (Significant(d, j \div 8) \div Pow2(j % 8)) % 2

\* C9: for every integer shape and every value read through it, Binary
\* with padded = true gives exactly 8 * size() binary digits, the value's
\* bits with '0' in front: the U8 byte 0x12 gives "00010010" and the U8
\* byte 0x00 gives "00000000".
C9_BinaryPaddedWidth ==
    (IsBinaryCall /\ last.display.padded)
        => LET d == last.def
               w == 8 * size(d)
               text == last.res.val
           IN  /\ Len(text) = w
               /\ \A i \in 1..w :
                    text[i] = IF WindowBit(d, w - i) = 1 THEN "1" ELSE "0"
               /\ (d.ty = "U8" /\ buf[pos0 + 1] = 18)
                    => text = <<"0", "0", "0", "1", "0", "0", "1", "0">>
               /\ (d.ty = "U8" /\ buf[pos0 + 1] = 0)
                    => text = <<"0", "0", "0", "0", "0", "0", "0", "0">>

\* the U8 byte 0x12 was rendered in padded binary
C9_Witness ==
    /\ IsBinaryCall /\ last.display.padded
    /\ last.def.ty = "U8"
    /\ buf[pos0 + 1] = 18
    /\ last.res.val = <<"0", "0", "0", "1", "0", "0", "1", "0">>

\* the hex digit of a nibble in the asked case
RefDigit(n, uppercase) == IF uppercase THEN UpperDigits[n + 1] ELSE Digit(n)

\* nibble i (1 the most significant) of the window's value
WindowNibble(d, i) ==
    LET byte == Significant(d, size(d) - ((i + 1) \div 2))
    IN  IF i % 2 = 1 THEN byte \div 16 ELSE byte % 16

\* the number of leading zero nibbles of the window's value, at most all
\* but one
LeadingZeros(d, i) ==
    LET set == {j \in i..(2 * size(d) - 1) : WindowNibble(d, j) # 0}
    IN  IF set = {} THEN 2 * size(d) - i
        ELSE (CHOOSE j \in set : \A k \in set : j <= k) - i

\* the digit string D of the window's value
RefHexDigits(d, padded, uppercase) ==
    LET skip == IF padded THEN 0 ELSE LeadingZeros(d, 1)
    IN  [i \in 1..(2 * size(d) - skip) |->
            RefDigit(WindowNibble(d, i + skip), uppercase)]

\* C10: for every integer value and all eight HexOptions, the Hex output is
\* P followed by D: P is "0x" (lower case) when prefix = true and empty
\* otherwise, D is the digit string of (value, padded) with a-f in upper
\* case exactly when uppercase = true.  Toggling uppercase changes neither
\* the prefix nor the number of digits; toggling prefix does not change D.
C10_HexPrefixAndCase ==
    IsHexCall
        => LET d == last.def
               o == last.display
               text == last.res.val
               P == IF o.prefix THEN <<"0", "x">> ELSE <<>>
               flipCase == to_string(Cursor, d,
                               [o EXCEPT !.uppercase = ~o.uppercase]).val
               flipPrefix == to_string(Cursor, d,
                                 [o EXCEPT !.prefix = ~o.prefix]).val
           IN  /\ text = P \o RefHexDigits(d, o.padded, o.uppercase)
               /\ Len(flipCase) = Len(text)
               /\ SubSeq(flipCase, 1, Len(P)) = P
               /\ AfterPrefix(flipPrefix, [o EXCEPT !.prefix = ~o.prefix])
                    = AfterPrefix(text, o)

\* the bytes 00 00 12 AB were rendered as 0x000012AB
C10_Witness ==
    /\ IsHexCall
    /\ last.display = Display("Hex", TRUE, TRUE, TRUE)
    /\ last.def = [ty |-> "U32", endian |-> "Big"]
    /\ last.res.val = <<"0", "x", "0", "0", "0", "0", "1", "2", "A", "B">>

\* the window's value is 0
WindowIsZero(d) == \A k \in 0..(size(d) - 1) : Significant(d, k) = 0

\* C11: with padded = false, Hex and Binary give the minimal digits of the
\* value: the digits are those of the value, the first of them is not '0'
\* unless the value is 0, and the value 0 gives exactly "0", one digit.
C11_UnpaddedMinimal ==
    /\ (IsHexCall /\ ~last.display.padded)
        => LET d == last.def
               ds == AfterPrefix(last.res.val, last.display)
           IN  /\ Len(ds) >= 1
               /\ WindowIsZero(d) <=> ds = <<"0">>
               /\ ~WindowIsZero(d) => ds[1] # "0"
               /\ \A i \in 1..Len(ds) :
                    ds[i] = RefDigit(WindowNibble(d, 2 * size(d) - Len(ds) + i),
                                     last.display.uppercase)
               /\ \A i \in 1..(2 * size(d) - Len(ds)) : WindowNibble(d, i) = 0
    /\ (IsBinaryCall /\ ~last.display.padded)
        => LET d == last.def
               ds == last.res.val
           IN  /\ Len(ds) >= 1
               /\ WindowIsZero(d) <=> ds = <<"0">>
               /\ ~WindowIsZero(d) => ds[1] = "1"
               /\ \A i \in 1..Len(ds) :
                    ds[i] = IF WindowBit(d, Len(ds) - i) = 1 THEN "1" ELSE "0"
               /\ \A j \in Len(ds)..(8 * size(d) - 1) : WindowBit(d, j) = 0

\* the 16-bit value 0x0012 was rendered as the five binary digits 10010
C11_Witness ==
    /\ IsBinaryCall /\ ~last.display.padded
    /\ last.def = [ty |-> "U16", endian |-> "Big"]
    /\ buf[pos0 + 1] = 0 /\ buf[pos0 + 2] = 18
    /\ last.res.val = <<"1", "0", "0", "1", "0">>

\* the window's bytes, the most significant first in d's byte order
WindowBytes(d) == [i \in 1..size(d) |-> Significant(d, size(d) - i)]

IsFloatCall == last.op = "to_string" /\ last.def.ty \in FloatTys
               /\ Fits(last.def)

\* C12: for F32 and F64 in either byte order, with the window inside the
\* buffer, to_string with Hex, Octal or Binary returns the error that
\* floats cannot be displayed so, for every bit pattern and all options;
\* with Decimal and Scientific it returns a text for every bit pattern,
\* "NaN" for a NaN and "inf" or "-inf" for an infinity.
C12_FloatDisplays ==
    IsFloatCall
        => LET w == WindowBytes(last.def)
               mode == last.display.mode
           IN  /\ mode = "Hex" => last.res = Err("float_hex")
               /\ mode = "Octal" => last.res = Err("float_octal")
               /\ mode = "Binary" => last.res = Err("float_binary")
               /\ mode \in {"Decimal", "Scientific"}
                    => /\ last.res.ok
                       /\ Len(last.res.val) >= 1
               /\ (mode = "Decimal" /\ FloatIsNaN(w))
                    => last.res.val = <<"N", "a", "N">>
               /\ (mode = "Decimal" /\ FloatIsInf(w))
                    => last.res.val =
                         (IF w[1] >= 128 THEN <<"-">> ELSE <<>>)
                             \o <<"i", "n", "f">>

\* the f64 -inf, read little-endian, was rendered in Decimal
C12_Witness ==
    /\ IsFloatCall
    /\ last.def = [ty |-> "F64", endian |-> "Little"]
    /\ WindowBytes(last.def) = <<255, 240, 0, 0, 0, 0, 0, 0>>
    /\ last.display = Decimal
    /\ last.res = Ok(<<"-", "i", "n", "f">>)

DecimalDigitChars == {"0", "1", "2", "3", "4", "5", "6", "7", "8", "9"}

DigitValue(ch) == CHOOSE n \in 0..15 : LowerDigits[n + 1] = ch

\* bytes * m + a for m < 32768, from the least significant byte, two bytes
\* to a step (one when a single byte is left): <<bytes, carry out>>
RECURSIVE MulAdd(_, _, _, _)
MulAdd(bytes, m, a, i) ==
    IF i = 0 THEN <<bytes, a>>
    ELSE IF i = 1
    THEN LET cur == bytes[1] * m + a
         IN  <<[bytes EXCEPT ![1] = cur % 256], cur \div 256>>
    ELSE LET cur == (bytes[i - 1] * 256 + bytes[i]) * m + a
             low == cur % 65536
         IN  MulAdd([bytes EXCEPT ![i - 1] = low \div 256, ![i] = low % 256],
                    m, cur \div 65536, i - 2)

\* the number written by at most four digits in the given base
ChunkValue(ds, base) ==
    LET d(i) == DigitValue(ds[i])
    IN  CASE Len(ds) = 1 -> d(1)
          [] Len(ds) = 2 -> d(1) * base + d(2)
          [] Len(ds) = 3 -> (d(1) * base + d(2)) * base + d(3)
          [] Len(ds) = 4 -> ((d(1) * base + d(2)) * base + d(3)) * base + d(4)

\* the number written by the digits ds in the given base (four digits to
\* a step), in the bytes of acc, and whether it fits them
RECURSIVE ParseDigits(_, _, _, _)
ParseDigits(ds, base, acc, fits) ==
    IF ds = <<>> THEN [bytes |-> acc, fits |-> fits]
    ELSE LET k == Min(4, Len(ds))
             rest == SubSeq(ds, k + 1, Len(ds))
             r == MulAdd(acc, base ^ k, ChunkValue(SubSeq(ds, 1, k), base),
                         Len(acc))
         IN  IF r[2] = 0 THEN ParseDigits(rest, base, r[1], fits)
             ELSE ParseDigits(rest, base, r[1], FALSE)

ParseDecimal(ds, n) == ParseDigits(ds, 10, Repeat(0, n), TRUE)

\* a + b = 0 modulo 256^Len(a): b is the two's-complement negation of a
RECURSIVE SumIsZero(_, _, _, _)
SumIsZero(a, b, i, carry) ==
    IF i = 0 THEN TRUE
    ELSE LET cur == a[i] + b[i] + carry
         IN  cur % 256 = 0 /\ SumIsZero(a, b, i - 1, cur \div 256)

\* the shape of the same width and byte order and the other signedness
Counterpart(d) ==
    [d EXCEPT !.ty =
        CASE d.ty = "U8" -> "I8" [] d.ty = "U16" -> "I16"
          [] d.ty = "U32" -> "I32" [] d.ty = "U64" -> "I64"
          [] d.ty = "U128" -> "I128"
          [] d.ty = "I8" -> "U8" [] d.ty = "I16" -> "U16"
          [] d.ty = "I32" -> "U32" [] d.ty = "I64" -> "U64"
          [] d.ty = "I128" -> "U128"]

IsDecimalCall == last.op = "to_string" /\ last.display = Decimal
                 /\ last.def.ty \in IntegerTys /\ last.res.ok

\* C13: Decimal renders the value the shape's signedness selects: for an
\* unsigned shape the base-10 digits of the unsigned value, without a sign;
\* for a signed shape the digits of the two's-complement value's magnitude,
\* with '-' in front exactly when the value is negative.  The same bytes
\* render differently under U_w and I_w exactly when the top bit is set:
\* 0xFF is "255" as U8 and "-1" as I8.
C13_DecimalBySignedness ==
    IsDecimalCall
        => LET d == last.def
               text == last.res.val
               w == WindowBytes(d)
               neg == d.ty \in SignedTys /\ w[1] >= 128
               ds == IF text[1] = "-" THEN Tail(text) ELSE text
               p == ParseDecimal(ds, size(d))
           IN  /\ text[1] = "-" <=> neg
               /\ Len(ds) >= 1
               /\ \A i \in 1..Len(ds) : ds[i] \in DecimalDigitChars
               /\ ds[1] = "0" => ds = <<"0">>
               /\ p.fits
               /\ IF neg THEN SumIsZero(p.bytes, w, size(d), 0)
                  ELSE p.bytes = w
               /\ to_string(Cursor, Counterpart(d), Decimal).val # text
                    <=> w[1] >= 128
               /\ (d.ty = "U8" /\ w = <<255>>) => text = <<"2", "5", "5">>
               /\ (d.ty = "I8" /\ w = <<255>>) => text = <<"-", "1">>

\* the bytes 80 00 00 00 were rendered as the least 32-bit signed value
C13_Witness ==
    /\ IsDecimalCall
    /\ last.def = [ty |-> "I32", endian |-> "Big"]
    /\ WindowBytes(last.def) = <<128, 0, 0, 0>>
    /\ last.res.val =
         <<"-", "2", "1", "4", "7", "4", "8", "3", "6", "4", "8">>

OctalDigitChars == {"0", "1", "2", "3", "4", "5", "6", "7"}

IsOctalCall == last.op = "to_string" /\ last.display.mode = "Octal"
               /\ last.def.ty \in IntegerTys /\ last.res.ok

\* C14: Octal on every integer shape renders the minimal base-8 digits of
\* the value (of its bit pattern): only the digits 0..7, which written in
\* base 8 are the window's value, with no '0' or "0o" in front and no
\* padding to the width of the type; the value 0 gives exactly "0".
C14_OctalMinimal ==
    IsOctalCall
        => LET d == last.def
               text == last.res.val
               p == ParseDigits(text, 8, Repeat(0, size(d)), TRUE)
           IN  /\ Len(text) >= 1
               /\ \A i \in 1..Len(text) : text[i] \in OctalDigitChars
               /\ text[1] = "0" => text = <<"0">>
               /\ p.fits
               /\ p.bytes = WindowBytes(d)
               /\ WindowIsZero(d) <=> text = <<"0">>

\* the bytes 00 00 12 ab were rendered as the five octal digits 11253
C14_Witness ==
    /\ IsOctalCall
    /\ last.def = [ty |-> "U32", endian |-> "Big"]
    /\ WindowBytes(last.def) = <<0, 0, 18, 171>>
    /\ last.res.val = <<"1", "1", "2", "5", "3">>

IsScientificCall == last.op = "to_string" /\ last.display.mode = "Scientific"
                    /\ last.res.ok

\* C15: for every value of every shape, integers and floats, the
\* non-finite floats included, the text of Scientific with uppercase = true
\* is the text of Scientific with uppercase = false with the exponent
\* marker 'e' replaced by 'E' and no other character changed.
C15_UppercaseOnlyExponent ==
    (IsScientificCall /\ last.display.uppercase)
        => LET lower == to_string(Cursor, last.def,
                                  Display("Scientific", FALSE, FALSE, FALSE)).val
           IN  last.res.val =
                   [i \in 1..Len(lower) |->
                       IF lower[i] = "e" THEN "E" ELSE lower[i]]

\* the number written by a few decimal digits
RECURSIVE NatValue(_)
NatValue(ds) ==
    IF ds = <<>> THEN 0
    ELSE NatValue(SubSeq(ds, 1, Len(ds) - 1)) * 10 + DigitValue(ds[Len(ds)])

IsIntScientificCall == IsScientificCall /\ last.def.ty \in IntegerTys

\* C16: for every integer value v, Scientific renders mantissa, 'e' (or
\* 'E'), exponent: the exponent is the number of decimal digits of |v| less
\* one, the mantissa is the decimal digits of |v| with '.' after the first
\* and the trailing zeros removed (no '.' when one digit remains), with '-'
\* in front when v < 0; mantissa * 10^exponent is v exactly.  0 gives
\* "0e0", 100 gives "1e2", 4294967295 gives "4.294967295e9", -1 gives
\* "-1e0".
C16_IntegerScientific ==
    IsIntScientificCall
        => LET d == last.def
               text == last.res.val
               w == WindowBytes(d)
               neg == d.ty \in SignedTys /\ w[1] >= 128
               marker == IF last.display.uppercase THEN "E" ELSE "e"
               body == IF text[1] = "-" THEN Tail(text) ELSE text
               marks == {i \in 1..Len(body) : body[i] = marker}
               mark == CHOOSE i \in marks : TRUE
               mant == SubSeq(body, 1, mark - 1)
               expo == SubSeq(body, mark + 1, Len(body))
               md == IF Len(mant) <= 1 THEN mant
                     ELSE <<mant[1]>> \o SubSeq(mant, 3, Len(mant))
               e == NatValue(expo)
               digits == md \o Repeat("0", e + 1 - Len(md))
               p == ParseDecimal(digits, size(d))
           IN  /\ text[1] = "-" <=> neg
               /\ Cardinality(marks) = 1
               /\ Len(mant) >= 1 /\ Len(mant) # 2
               /\ Len(mant) > 1 => mant[2] = "."
               /\ \A i \in 1..Len(md) : md[i] \in DecimalDigitChars
               /\ Len(expo) >= 1
               /\ \A i \in 1..Len(expo) : expo[i] \in DecimalDigitChars
               /\ expo[1] = "0" => expo = <<"0">>
               /\ md[1] = "0" => md = <<"0">>
               /\ md[Len(md)] = "0" => md = <<"0">>
               /\ e + 1 >= Len(md)
               /\ digits[1] = "0" => digits = <<"0">>
               /\ p.fits
               /\ IF neg THEN SumIsZero(p.bytes, w, size(d), 0)
                  ELSE p.bytes = w
               /\ ~last.display.uppercase =>
                    /\ WindowIsZero(d) => text = <<"0", "e", "0">>
                    /\ (d.ty = "U8" /\ w = <<100>>) => text = <<"1", "e", "2">>
                    /\ (d.ty = "U32" /\ w = <<255, 255, 255, 255>>)
                         => text = <<"4", ".", "2", "9", "4", "9", "6", "7",
                                     "2", "9", "5", "e", "9">>
                    /\ (d.ty \in SignedTys /\ \A i \in 1..size(d) : w[i] = 255)
                         => text = <<"-", "1", "e", "0">>

\* the u8 value 100 was rendered as 1e2
C16_Witness ==
    /\ IsIntScientificCall /\ ~last.display.uppercase
    /\ last.def.ty = "U8"
    /\ WindowBytes(last.def) = <<100>>
    /\ last.res.val = <<"1", "e", "2">>

\* the call returned an error to its caller
ReturnedError(res) == ~res.ok /\ "err" \in DOMAIN res

\* C17: read_bytes(n) at position p of a buffer of length len returns
\* exactly the n bytes buf[p .. p + n) when p + n <= len, and returns an
\* error for every n > 0, of any magnitude, with p + n > len; it never
\* returns a shorter vector.
C17_ReadBytesExact ==
    last.op = "read_bytes"
        => LET n == last.n
               inside == SizeIsSmall(n) /\ pos0 + SizeValue(n) <= Len(buf)
           IN  /\ inside
                    => last.res = Ok(SubSeq(buf, pos0 + 1, pos0 + SizeValue(n)))
               /\ (n # usize(0) /\ ~inside) => ReturnedError(last.res)
               /\ last.res.ok
                    => SizeIsSmall(n) /\ Len(last.res.val) = SizeValue(n)

\* C18: read_bytes(0) returns Ok with an empty vector at every position,
\* the positions beyond the end of the buffer and the empty buffer
\* included.
C18_ReadZeroBytes ==
    (last.op = "read_bytes" /\ last.n = usize(0)) => last.res = Ok(<<>>)

\* zero bytes were read from the empty buffer at a position beyond its end
C18_Witness ==
    /\ last.op = "read_bytes" /\ last.n = usize(0)
    /\ buf = <<>> /\ pos0 > 0
    /\ last.res = Ok(<<>>)

\* C19: constructing a cursor never fails: Context::new(buf) gives position
\* 0, for the empty buffer too, and Context::new_at(buf, p) and
\* new_context(buf, p) give position p for every p, p beyond the length of
\* the buffer included; the position out of range is reported only later,
\* as the error of a read of positive width, and not by a read of no bytes.
C19_ConstructionNeverFails ==
    /\ last = NoCall
        => /\ position(Cursor) = pos0
           /\ Cursor \in Constructed(buf, pos0)
           /\ pos0 = 0 => Cursor = Context_new(buf)
    /\ (pos0 > Len(buf) /\ last.op \in {"read", "to_string"})
        => last.res = Err("read")
    /\ (pos0 > Len(buf) /\ last.op = "read_bytes" /\ last.n = usize(0))
        => last.res = Ok(<<>>)

\* a cursor constructed over the empty buffer at a position beyond its end
\* has kept that position, and a one-byte read of it was refused
C19_Witness ==
    /\ buf = <<>> /\ pos0 > 0
    /\ position(Cursor) = pos0
    /\ last.op = "read" /\ last.def.ty = "U8"
    /\ last.res = Err("read")

\* C20: Context::at(q) returns a new cursor over the same buffer whose
\* position() is q, and leaves the receiver as it was: the receiver's
\* position() and the result of every read on it are what they were before
\* the call, for any q, q beyond the length of the buffer included.
C20_AtLeavesReceiver ==
    last.op = "at"
        => LET q == SizeValue(last.n)
               new == last.res.val
           IN  /\ last.res.ok
               /\ new.v = buf
               /\ position(new) = q
               /\ position(Cursor) = pos0
               /\ \A d \in SizedDefinition :
                    /\ Context_read(Cursor, d)
                           = Context_read(Context_new_at(buf, pos0), d)
                    /\ Context_read(new, d)
                           = Context_read(Context_new_at(buf, q), d)
               /\ \A n \in ReadSizes :
                    read_bytes(Cursor, n)
                        = read_bytes(Context_new_at(buf, pos0), n)

\* at was called with a position beyond the end, on a cursor inside the
\* buffer, which has stayed where it was
C20_Witness ==
    /\ last.op = "at"
    /\ SizeValue(last.n) > Len(buf)
    /\ pos0 < Len(buf)
    /\ position(last.res.val) = SizeValue(last.n)
    /\ position(Cursor) = pos0

\* the width of a shape by its variant tag
WidthOfTag(ty) ==
    IF ty \in {"U8", "I8"} THEN 1
    ELSE IF ty \in {"U16", "I16"} THEN 2
    ELSE IF ty \in {"U32", "I32", "F32"} THEN 4
    ELSE IF ty \in {"U64", "I64", "F64"} THEN 8
    ELSE 16

\* C21: size() returns 1 for U8/I8, 2 for U16/I16, 4 for U32/I32/F32, 8 for
\* U64/I64/F64 and 16 for U128/I128: it is decided by the variant tag
\* alone, whatever the endianness the variant carries and whatever the
\* buffer and the position of any cursor.
C21_SizeByTag ==
    last.op = "size"
        => /\ last.res = Ok(u64(WidthOfTag(last.def.ty)))
           /\ \A e \in SizedDefinition :
                e.ty = last.def.ty => Ok(u64(size(e))) = last.res

\* the size of the little-endian I128 was asked over the empty buffer
C21_Witness ==
    /\ last.op = "size"
    /\ last.def = [ty |-> "I128", endian |-> "Little"]
    /\ buf = <<>>
    /\ last.res = Ok(u64(16))

\* the window's bytes in the order they lie in the buffer
WindowRaw(d) == SubSeq(buf, pos0 + 1, pos0 + size(d))

\* the shape of the same type and the other byte order
OtherEndian(d) ==
    [d EXCEPT !.endian = IF d.endian = "Big" THEN "Little" ELSE "Big"]

\* the call made again through the shape d on the cursor c
Replayed(call, c, d) ==
    CASE call.op = "to_string" -> to_string(c, d, call.display)
      [] call.op = "to_u64" -> to_u64(c, d)
      [] call.op = "to_i64" -> to_i64(c, d)
      [] call.op = "read" -> Context_read(c, d)

IsShapedCall == last.op \in {"to_string", "to_u64", "to_i64", "read"}

\* C22: Big takes the first byte of the window as the most significant and
\* Little takes it as the least significant: for every multi-byte shape and
\* every window, the value read with one byte order, and its text in every
\* display mode, are those read with the other byte order from the window's
\* bytes reversed.
C22_EndianReversal ==
    (IsShapedCall /\ size(last.def) > 1 /\ Fits(last.def))
        => LET d == last.def
               b == WindowRaw(d)
               o == OtherEndian(d)
           IN  /\ last.res = Replayed(last, new_context(Reverse(b), 0), o)
               /\ last.op = "read"
                    => /\ last.res.ok
                       /\ d.endian = "Big" => last.res.val.bits = b
                       /\ d.endian = "Little"
                            => /\ last.res.val.bits[size(d)] = b[1]
                               /\ last.res.val.bits[1] = b[size(d)]
               /\ (last.op = "to_string" /\ d.ty \in IntegerTys
                   /\ last.display = HexDefault)
                    => LET first == <<last.res.val[3], last.res.val[4]>>
                           n == Len(last.res.val)
                           final == <<last.res.val[n - 1], last.res.val[n]>>
                           hex == <<Digit(b[1] \div 16), Digit(b[1] % 16)>>
                       IN  IF d.endian = "Big" THEN first = hex
                           ELSE final = hex

\* the bytes 00 00 12 ab, read as a little-endian U32, were rendered as
\* 0xab120000
C22_Witness ==
    /\ last.op = "to_string"
    /\ last.def = [ty |-> "U32", endian |-> "Little"]
    /\ Fits(last.def)
    /\ WindowRaw(last.def) = <<0, 0, 18, 171>>
    /\ last.display = HexDefault
    /\ last.res.val = <<"0", "x", "a", "b", "1", "2", "0", "0", "0", "0">>

\* bytes put in front of and behind a window to make other buffers that
\* agree with this one on the window
BytesBefore == {<<>>, <<255, 0, 7>>}
BytesAfter == {<<>>, <<255>>}

IsValueCall == last.op \in {"to_string", "to_u64", "to_i64"}

\* C23: the result of to_string, to_u64 and to_i64 is decided by the
\* definition, the display mode with its options and the size() bytes of
\* the window alone: every buffer that holds the same window, at whatever
\* offset, of whatever length and with whatever other bytes, gives the same
\* result, and so does the call whatever calls were made before it.
C23_WindowOnly ==
    (IsValueCall /\ Fits(last.def))
        => LET d == last.def
               w == WindowRaw(d)
           IN  \A pre \in BytesBefore, post \in BytesAfter :
                   last.res =
                       Replayed(last, new_context(pre \o w \o post, Len(pre)), d)

\* the second of two calls on one cursor rendered the bytes 12 ab, which
\* lie at offset 2 of a buffer of 8 bytes
C23_Witness ==
    /\ <<buf, pos0>> \in SeqCursors /\ pos0 = 2
    /\ left = 0
    /\ last.op = "to_string"
    /\ last.def = [ty |-> "U16", endian |-> "Big"]
    /\ last.display = HexDefault
    /\ last.res.val = <<"0", "x", "1", "2", "a", "b">>

\* what the read recorded in call can return on a cursor that is alone on
\* the buffer, at position p
AloneResult(call, p) ==
    LET c == Context_new_at(buf, p)
    IN  CASE call.op = "read" -> {Context_read(c, call.def)}
          [] call.op = "read_bytes" -> read_bytes(c, call.n)

\* C24: cursors over one buffer are independent: whatever at() and read
\* calls are made, in whatever order, on the caller's cursor and on the
\* cursors made from it by clone, new_at and at, each cursor's position is
\* the one it was made with and each read returns what it returns on a
\* cursor that is alone on the buffer; the buffer's bytes are never
\* changed.
C24_CursorsIndependent ==
    /\ buf = SharedBuffer
    /\ position(Cursor) = pos0
    /\ last.op # "none" => last.res \in AloneResult(last, pos0)
    /\ \A k \in 1..Len(peers) :
            /\ peers[k].c.v = buf
            /\ position(peers[k].c) = peers[k].made
            /\ peers[k].last.op # "none"
                 => peers[k].last.res \in
                        AloneResult(peers[k].last, peers[k].made)

\* a cursor made by at() at another position and the caller's cursor have
\* both read a 16-bit value, and not the same one
C24_Witness ==
    /\ Len(peers) = 1
    /\ peers[1].made # pos0
    /\ last.op = "read" /\ last.def.ty = "U16" /\ last.res.ok
    /\ peers[1].last.op = "read" /\ peers[1].last.def.ty = "U16"
    /\ peers[1].last.res.ok
    /\ peers[1].last.res # last.res

\* the characters of a text
Chars(text) == {text[i] : i \in 1..Len(text)}

\* C25: the default options are HexOptions {uppercase: false, prefix: true,
\* padded: true}, BinaryOptions {padded: true} and ScientificOptions
\* {uppercase: false}; so the default Hex of any integer value is "0x" and
\* 2 * size() lower-case hex digits, the default Binary is 8 * size()
\* binary digits, and the default Scientific has a lower-case 'e'.
C25_Defaults ==
    /\ ~HexDefault.uppercase /\ HexDefault.prefix /\ HexDefault.padded
    /\ BinaryDefault.padded
    /\ ~ScientificDefault.uppercase
    /\ (IsHexCall /\ last.display = HexDefault)
        => LET d == last.def
               text == last.res.val
           IN  /\ Len(text) = 2 + 2 * size(d)
               /\ text = <<"0", "x">> \o RefHexDigits(d, TRUE, FALSE)
               /\ Chars(text) \cap {"A", "B", "C", "D", "E", "F", "X"} = {}
               /\ (d = [ty |-> "U32", endian |-> "Big"]
                   /\ WindowRaw(d) = DataF)
                    => text = <<"0", "x", "4", "1", "4", "2",
                                "4", "3", "4", "4">>
    /\ (IsBinaryCall /\ last.display = BinaryDefault)
        => LET d == last.def
               text == last.res.val
           IN  /\ Len(text) = 8 * size(d)
               /\ \A i \in 1..Len(text) :
                    text[i] = IF WindowBit(d, 8 * size(d) - i) = 1 THEN "1"
                              ELSE "0"
    /\ (IsIntScientificCall /\ last.display = ScientificDefault)
        => /\ "e" \in Chars(last.res.val)
           /\ "E" \notin Chars(last.res.val)
           /\ (last.def = [ty |-> "U32", endian |-> "Big"]
               /\ WindowRaw(last.def) = DataF)
                => last.res.val = <<"1", ".", "0", "9", "4", "8", "6", "1",
                                    "6", "3", "6", "e", "9">>

\* the bytes "ABCD" were rendered by the default Hex as 0x41424344
C25_Witness ==
    /\ IsHexCall /\ last.display = HexDefault
    /\ last.def = [ty |-> "U32", endian |-> "Big"]
    /\ WindowRaw(last.def) = DataF
    /\ last.res.val = <<"0", "x", "4", "1", "4", "2", "4", "3", "4", "4">>

IsBitPatternCall == IsHexCall \/ IsOctalCall \/ IsBinaryCall

\* C26: Hex, Octal and Binary render a signed integer as its
\* two's-complement bit pattern, without a minus sign: for every width,
\* byte order, window and combination of options the text of I_w is the
\* text of U_w for the same bytes; a negative value has all its digits,
\* 2 * w in Hex and 8 * w in Binary, padded or not.
C26_SignedAsBitPattern ==
    (IsBitPatternCall /\ last.def.ty \in SignedTys)
        => LET d == last.def
               text == last.res.val
               negative == WindowBytes(d)[1] >= 128
           IN  /\ last.res = to_string(Cursor, Counterpart(d), last.display)
               /\ "-" \notin Chars(text)
               /\ (negative /\ IsHexCall)
                    => Len(AfterPrefix(text, last.display)) = 2 * size(d)
               /\ (negative /\ IsBinaryCall) => Len(text) = 8 * size(d)
               /\ (negative /\ IsOctalCall)
                    => Len(text) = (8 * size(d) + 2) \div 3

\* the I8 byte ff was rendered in unpadded binary as eight ones
C26_Witness ==
    /\ IsBinaryCall /\ ~last.display.padded
    /\ last.def.ty = "I8"
    /\ WindowBytes(last.def) = <<255>>
    /\ last.res.val = <<"1", "1", "1", "1", "1", "1", "1", "1">>

\* the errors of the float arms for the modes they do not support
FloatModeErrors == {Err("float_hex"), Err("float_octal"), Err("float_binary")}

IsFloatBitPatternCall ==
    /\ last.op = "to_string"
    /\ last.def.ty \in FloatTys
    /\ last.display.mode \in {"Hex", "Octal", "Binary"}

\* C27: to_string reads the value before it looks at the display mode: for
\* F32 and F64 with Hex, Octal or Binary, where fewer than size() bytes
\* remain at the offset the error is that of the read, not that of the
\* unsupported mode; the error of the unsupported mode is returned only
\* when the size() bytes can be read.
C27_ReadBeforeMode ==
    IsFloatBitPatternCall
        => /\ ~last.res.ok
           /\ ~Fits(last.def) => last.res = Err("read")
           /\ last.res \in FloatModeErrors <=> Fits(last.def)

\* Hex of an F64 was asked where some, but not all, of its eight bytes are
\* in the buffer, and the error is that of the read
C27_Witness ==
    /\ IsFloatBitPatternCall
    /\ last.def.ty = "F64" /\ last.display.mode = "Hex"
    /\ pos0 < Len(buf) /\ pos0 + 8 > Len(buf)
    /\ last.res = Err("read")

(***************************************************************************)
(* C28: the three hex renderers agree.  For every integer type, byte       *)
(* order, value and each of the eight combinations of uppercase, prefix    *)
(* and padded, display_hex of lib.rs, the Hex arm of sized_integer.rs and  *)
(* the Hex arm of integer.rs give the same text: whichever of the three    *)
(* made the last rendering, its text is the text of the other two on the   *)
(* same value with the same options.                                       *)
(***************************************************************************)
IsRenderCall == last.op \in {"lib_hex", "sized_integer_hex", "integer_hex"}

RenderedValue == [ty |-> last.def.ty, bits |-> WindowBytes(last.def)]

C28_HexRenderersAgree ==
    IsRenderCall =>
        IF Fits(last.def)
        THEN /\ last.res.ok
             /\ last.res.val = display_hex(RenderedValue, last.display)
             /\ last.res.val = SizedInteger_to_string(RenderedValue,
                                                      last.display)
             /\ last.res.val = integer_to_string(RenderedValue, last.display)
        ELSE ~last.res.ok

\* integer.rs test_hex_u32: 0x000012ab read big-endian with uppercase, prefix
\* and padding, given by the renderer of integer.rs
C28_Witness ==
    /\ last.op = "integer_hex"
    /\ last.def = [ty |-> "U32", endian |-> "Big"]
    /\ last.display = Display("Hex", TRUE, TRUE, TRUE)
    /\ Fits(last.def)
    /\ WindowBytes(last.def) = <<0, 0, 18, 171>>
    /\ last.res = Ok(<<"0", "x", "0", "0", "0", "0", "1", "2", "A", "B">>)

(***************************************************************************)
(* C29: conversion and rendering agree on the value read.  Where to_u64    *)
(* succeeds (U8..U64) the base-10 text of the u64 returned is what         *)
(* to_string(Decimal) gives for the same definition on the same cursor;    *)
(* where to_i64 succeeds (I8..I64) the base-10 text of the i64 returned,   *)
(* with '-' when negative, is what to_string(Decimal) gives.  Seen from    *)
(* the rendering: a Decimal text of such a definition is the base-10 text  *)
(* of the value its conversion returns.                                    *)
(***************************************************************************)
C29_ConversionMatchesDecimal ==
    /\ (last.op = "to_u64" /\ last.res.ok) =>
           /\ last.def.ty \in {"U8", "U16", "U32", "U64"}
           /\ to_string(Cursor, last.def, Decimal)
                  = Ok(fmt_unsigned(last.res.val))
    /\ (last.op = "to_i64" /\ last.res.ok) =>
           /\ last.def.ty \in {"I8", "I16", "I32", "I64"}
           /\ to_string(Cursor, last.def, Decimal)
                  = Ok(fmt_signed(last.res.val))
    /\ (IsDecimalCall /\ last.res.ok) =>
           /\ last.def.ty \in {"U8", "U16", "U32", "U64"} =>
                  /\ to_u64(Cursor, last.def).ok
                  /\ last.res.val
                         = fmt_unsigned(to_u64(Cursor, last.def).val)
           /\ last.def.ty \in {"I8", "I16", "I32", "I64"} =>
                  /\ to_i64(Cursor, last.def).ok
                  /\ last.res.val = fmt_signed(to_i64(Cursor, last.def).val)

\* to_i64 of the I16 0xff80 read big-endian: the i64 -128, rendered "-128"
C29_Witness ==
    /\ last.op = "to_i64"
    /\ last.def = [ty |-> "I16", endian |-> "Big"]
    /\ Fits(last.def)
    /\ WindowBytes(last.def) = <<255, 128>>
    /\ last.res = Ok(<<255, 255, 255, 255, 255, 255, 255, 128>>)
    /\ to_string(Cursor, last.def, Decimal) = Ok(<<"-", "1", "2", "8">>)

(***************************************************************************)
(* C30: the unpadded fallback arm of the padding logic is never taken from *)
(* SizedDefinition::to_string.  For every integer variant the byte width   *)
(* that display_hex and display_binary measure on the boxed value is       *)
(* size() and is one of 1, 2, 4, 8, 16, so that a padded request matches   *)
(* an explicit width arm: the text has the arm's full width, 2 * size()    *)
(* hex digits or 8 * size() binary digits, even where the value's own      *)
(* digits are fewer.                                                       *)
(***************************************************************************)
\* the value to_string_internal boxes for the last call
Boxed ==
    [ty |-> last.def.ty, bits |-> read_value(Cursor, last.def).bits]

HexWidthArms == {2, 4, 8, 16, 32}
BinaryWidthArms == {8, 16, 32, 64, 128}

C30_NoFallbackArm ==
    /\ (IsHexCall \/ IsBinaryCall) =>
           /\ size_of_val(Boxed) = size(last.def)
           /\ size_of_val(Boxed) \in {1, 2, 4, 8, 16}
           /\ size_of_val(Boxed) * 2 \in HexWidthArms
           /\ size_of_val(Boxed) * 8 \in BinaryWidthArms
    /\ (IsHexCall /\ last.display.padded) =>
           /\ Len(AfterPrefix(last.res.val, last.display))
                  = size_of_val(Boxed) * 2
           /\ AfterPrefix(last.res.val, last.display)
                  = pad_zero(size_of_val(Boxed) * 2,
                             IF last.display.uppercase
                             THEN fmt_upper_hex(Boxed.bits)
                             ELSE fmt_lower_hex(Boxed.bits))
    /\ (IsBinaryCall /\ last.display.padded) =>
           /\ Len(last.res.val) = size_of_val(Boxed) * 8
           /\ last.res.val
                  = pad_zero(size_of_val(Boxed) * 8, fmt_binary(Boxed.bits))

\* a 128-bit value whose own hex digits are fewer than 32 was rendered padded
\* on its 32 digits, where the fallback arm would have given the fewer
C30_Witness ==
    /\ IsHexCall
    /\ last.display.padded
    /\ last.def.ty \in {"U128", "I128"}
    /\ Len(fmt_lower_hex(Boxed.bits)) \in 1..31
    /\ \E k \in 0..15 : Significant(last.def, k) # 0
    /\ Len(AfterPrefix(last.res.val, last.display)) = 32

====
